---- MODULE Spec2Model ----
(***************************************************************************)
(* A model of github.com/tsawler/toolbox (tools.go, load_sql.go).          *)
(*                                                                         *)
(* The library is a set of synchronous operations on a Tools value, an     *)
(* HTTP request, an HTTP response writer and the file system.  Every       *)
(* operation is one action that runs the whole method on a request chosen  *)
(* from a bounded set; NextRequest hands the library the next request.     *)
(*                                                                         *)
(* Request bodies are sequences of lexical units.  A JSON body is made of  *)
(*   "{"  "}"   the object delimiters                                      *)
(*   "k"        the member "foo":"bar"   (declared field, matching type)   *)
(*   "t"        the member "foo":1       (declared field, wrong type)      *)
(*   "u"        the member "fooo":"bar"  (a field the target lacks)        *)
(*   " "        white space                                                *)
(*   "x"        a byte that cannot start a JSON value                      *)
(* consecutive members stand for comma separated members.  An XML body is  *)
(* made of "<" (a start tag), ">" (an end tag), " " (white space) and "x"  *)
(* (malformed markup).  Body sizes are counted in units; req.pad is a run  *)
(* of white space that follows req.body, so that bodies longer than        *)
(* defaultMaxUpload exist in the model.                                    *)
(***************************************************************************)
EXTENDS Integers, Sequences, FiniteSets, TLC

VARIABLES
    t,      \* the Tools value the methods are called on
    req,    \* the *http.Request of the current call
    dest,   \* the caller's destination value (the data argument)
    w,      \* the http.ResponseWriter of the current call
    fs,     \* the file system: directories and the files of the upload dir
    args,   \* the other arguments of the current call
    ret,    \* what the current call returned
    trace,  \* the steps the current call performed, in order
    pc,     \* "idle": waiting for a request, "done": a call has returned,
            \* "scanning": parseSQLQueries is in its loop
    scanner, \* the bufio.Scanner of parseSQLQueries: lines, position, error
    key,     \* the variable key of parseSQLQueries
    queries, \* the variable queries of parseSQLQueries
    query    \* the map LoadSQLQueries makes and parseSQLQueries fills

parser == <<scanner, key, queries, query>>

vars == <<t, req, dest, w, fs, args, ret, trace, pc, scanner, key, queries,
          query>>

\* ---------------------------------------------------------------- bounds
MaxBodyLen == 4
MaxFiles == 2
MaxLines == 4
MaxSlugLen == 4
MaxRandLen == 2

\* ------------------------------------------------------------- constants
defaultMaxUpload == 10485760
StatusBadRequest == 400
SniffLen == 512

\* ------------------------------------------------------------- utilities
Min(a, b) == IF a < b THEN a ELSE b

SeqsUpTo(S, n) == UNION {[1..k -> S] : k \in 0..n}

Count(s, x) == Cardinality({i \in 1..Len(s) : s[i] = x})

\* strings.ToLower on the strings of the model.
ToLower(s) ==
    CASE s = "Application/JSON" -> "application/json"
      [] s = "IMAGE/PNG"        -> "image/png"
      [] OTHER                  -> s

\* strings.EqualFold
EqualFold(a, b) == ToLower(a) = ToLower(b)

\* ------------------------------------------------------------ the errors
nil == "nil"
ErrContentType  == "the Content-Type header is not application/json"
ErrSyntax       == "body contains badly-formed JSON (at character %d)"
ErrTruncated    == "body contains badly-formed JSON"
ErrType         == "body contains incorrect JSON type for field %q at offset %d"
ErrEmptyBody    == "body must not be empty"
ErrUnknownKey   == "body contains unknown key %s"
ErrTooLarge     == "body must not be larger than %d bytes"
ErrUnmarshal    == "error unmarshalling json: %s"
ErrMultiJSON    == "body must only contain a single JSON value"
ErrMultiXML     == "body must only contain a single XML value"

\* errors of encoding/json, encoding/xml, io and net/http
SyntaxError           == "json.SyntaxError"
UnmarshalTypeError    == "json.UnmarshalTypeError"
InvalidUnmarshalError == "json.InvalidUnmarshalError"
UnknownFieldError     == "json: unknown field "
EOF                   == "EOF"
ErrUnexpectedEOF      == "unexpected EOF"
MaxBytesError         == "http: request body too large"
XMLSyntaxError        == "xml.SyntaxError"
XMLNonPointer         == "non-pointer passed to Unmarshal"

\* ------------------------------------------------------------- the Tools
\* var t Tools
ZeroTools ==
    [MaxJSONSize |-> 0, MaxXMLSize |-> 0, MaxFileSize |-> 0,
     AllowedFileTypes |-> <<>>, AllowUnknownFields |-> FALSE]

\* New()
New ==
    [MaxJSONSize |-> defaultMaxUpload, MaxXMLSize |-> defaultMaxUpload,
     MaxFileSize |-> defaultMaxUpload,
     AllowedFileTypes |-> <<>>, AllowUnknownFields |-> FALSE]

\* ----------------------------------------------------------- the request
JSONUnits == {"{", "}", "k", "t", "u", " ", "x"}
XMLUnits  == {"<", ">", " ", "x"}
Members   == {"k", "t", "u"}

ContentTypes == {"", "application/json", "Application/JSON", "text/xml"}

NoRequest ==
    [contentType |-> "", body |-> <<>>, pad |-> 0,
     multipart |-> FALSE, files |-> <<>>]

\* the zero value of  struct { Foo string `json:"foo"` }
ZeroDest == [valid |-> TRUE, Foo |-> ""]

\* the header keys of the model; a key a caller did not canonicalize among
\* them
HeaderKeys == {"Content-Type", "content-type", "Foo"}

\* a fresh response writer: no header value, no status, no body
NoResponse ==
    [header |-> [k \in HeaderKeys |-> <<>>], status |-> 0, body |-> <<>>]

\* the payload of a call that has none
NoData == [kind |-> "nil", Error |-> FALSE, Message |-> "", Data |-> "nil"]

NoArgs ==
    [tools |-> ZeroTools, data |-> NoData, status |-> <<>>, headers |-> <<>>,
     err |-> "", uploadDir |-> "", rename |-> <<>>, fault |-> <<"none", 0>>,
     collide |-> FALSE, fileName |-> "", s |-> <<>>, n |-> 0]

NoReturn == [op |-> "none", err |-> nil, arg |-> 0, files |-> <<>>]

\* no file is being scanned, and make(map[string]string)
NoScanner == [lines |-> <<>>, pos |-> 0, err |-> nil]
EmptyMap == [k \in {} |-> <<>>]

\* ------------------------------------------------- http.MaxBytesReader
\* The bytes a reader limited to n bytes delivers, and the error that ends
\* the stream: the first n bytes and then MaxBytesError when the body is
\* longer than n, else the whole body and then io.EOF.  body is the part of
\* the delivered bytes that is not trailing padding.
MaxBytesReader(r, n) ==
    [buf |-> SubSeq(r.body, 1, Min(Len(r.body), n)),
     end |-> IF Len(r.body) + r.pad > n THEN MaxBytesError ELSE EOF]

\* ------------------------------------------------------- encoding/json
\* (*Decoder).readValue: scan one value starting at buf[i].  st is the
\* scanner's position in the grammar: "top" before a value, "obj" inside
\* an object.  ms collects the members of the object.
RECURSIVE readValue(_, _, _, _)
readValue(buf, i, st, ms) ==
    IF i > Len(buf)
    THEN [res |-> "more", kind |-> "none", pos |-> i, members |-> ms]
    ELSE LET c == buf[i] IN
         IF c = " " THEN readValue(buf, i + 1, st, ms)
         ELSE IF st = "top"
         THEN IF c = "{" THEN readValue(buf, i + 1, "obj", ms)
              ELSE IF c \in Members
              \* a string at the top level, ended by the ':' after it
              THEN [res |-> "value", kind |-> "string", pos |-> i + 1,
                    members |-> ms]
              ELSE [res |-> "error", kind |-> "none", pos |-> i,
                    members |-> ms]
         ELSE IF c = "}"
              THEN [res |-> "value", kind |-> "object", pos |-> i + 1,
                    members |-> ms]
              ELSE IF c \in Members
              THEN readValue(buf, i + 1, "obj", Append(ms, c))
              ELSE [res |-> "error", kind |-> "none", pos |-> i,
                    members |-> ms]

\* nonSpace(dec.buf)
nonSpace(buf, from) == \E i \in from..Len(buf) : buf[i] # " "

\* The key and the type of the value of a member.
MemberKey(m)  == IF m = "u" THEN "fooo" ELSE "foo"
MemberType(m) == IF m = "t" THEN "number" ELSE "string"

\* (*decodeState).object: store the members into a struct that declares
\* the fields `fields`; the first error is the one that is kept
\* (saveError), and decoding goes on after it.
RECURSIVE object(_, _, _, _, _)
object(ms, i, fields, disallow, acc) ==
    IF i > Len(ms) THEN acc
    ELSE LET m == ms[i]
             e == IF MemberKey(m) \notin fields
                  THEN IF disallow THEN UnknownFieldError ELSE nil
                  ELSE IF MemberType(m) # "string"
                       THEN UnmarshalTypeError ELSE nil
             foo == IF MemberKey(m) \in fields /\ MemberType(m) = "string"
                    THEN "bar" ELSE acc.Foo
         IN object(ms, i + 1, fields, disallow,
                   [err |-> IF acc.err = nil THEN e ELSE acc.err,
                    Foo |-> foo])

\* (*Decoder).Decode(v): read the next value of the stream from position
\* scanp and store it in v.  fields are the fields v declares.
Decode(stream, scanp, v, fields, disallow) ==
    LET rv == readValue(stream.buf, scanp, "top", <<>>) IN
    IF rv.res = "error"
    THEN [err |-> SyntaxError, pos |-> rv.pos, v |-> v]
    ELSE IF rv.res = "more"
    THEN [err |-> IF stream.end = EOF
                  THEN IF nonSpace(stream.buf, scanp)
                       THEN ErrUnexpectedEOF ELSE EOF
                  ELSE stream.end,
          pos |-> rv.pos, v |-> v]
    ELSE IF ~v.valid
    THEN [err |-> InvalidUnmarshalError, pos |-> rv.pos, v |-> v]
    ELSE IF rv.kind = "string"
    THEN [err |-> UnmarshalTypeError, pos |-> rv.pos, v |-> v]
    ELSE LET o == object(rv.members, 1, fields, disallow,
                         [err |-> nil, Foo |-> v.Foo])
         IN [err |-> o.err, pos |-> rv.pos,
             v |-> [v EXCEPT !.Foo = o.Foo]]

\* ------------------------------------------------------------- ReadJSON
\* a Content-Type check that compares the header as it was sent
ContentTypeRejected_CaseSensitive(r) ==
    r.contentType # "" /\ r.contentType # "application/json"

\* the Content-Type check
ContentTypeRejected(r) ==
    r.contentType # "" /\ ToLower(r.contentType) # "application/json"

\* maxBytes of ReadJSON
JSONMaxBytes(tools) ==
    IF tools.MaxJSONSize # 0 THEN tools.MaxJSONSize ELSE defaultMaxUpload

\* a switch whose truncated-input case also catches io.EOF
JSONError_EOFIsTruncated(err) ==
    CASE err = SyntaxError           -> ErrSyntax
      [] err \in {ErrUnexpectedEOF, EOF} -> ErrTruncated
      [] err = UnmarshalTypeError    -> ErrType
      [] err = UnknownFieldError     -> ErrUnknownKey
      [] err = MaxBytesError         -> ErrTooLarge
      [] err = InvalidUnmarshalError -> ErrUnmarshal
      [] OTHER                       -> err

\* the switch that turns the decoder's error into the returned error
JSONError(err) ==
    CASE err = SyntaxError           -> ErrSyntax
      [] err = ErrUnexpectedEOF      -> ErrTruncated
      [] err = UnmarshalTypeError    -> ErrType
      [] err = EOF                   -> ErrEmptyBody
      [] err = UnknownFieldError     -> ErrUnknownKey
      [] err = MaxBytesError         -> ErrTooLarge
      [] err = InvalidUnmarshalError -> ErrUnmarshal
      [] OTHER                       -> err

\* a decoder that never rejects unknown fields
DisallowUnknownFields_Never(tools) == FALSE

\* whether dec.DisallowUnknownFields() is called
DisallowUnknownFields(tools) == ~tools.AllowUnknownFields

\* the target of the second Decode: &struct{}{}
Throwaway == [valid |-> TRUE, Foo |-> ""]

\* a second Decode that is given the caller's destination again
ProbeTarget_Data(data) == "data"

\* which value the second Decode is given
ProbeTarget(data) == "&struct{}{}"

\* a test that takes any failure of the second Decode for the end
SingleValue_AnyError(err) == err # nil

\* the test on the error of the second Decode
SingleValue(err) == err = EOF

ReadJSON(tools, r, data) ==
    IF ContentTypeRejected(r)
    THEN [err |-> ErrContentType, arg |-> 0, data |-> data, trace |-> <<>>]
    ELSE
    LET maxBytes == JSONMaxBytes(tools)
        body     == MaxBytesReader(r, maxBytes)
        disallow == DisallowUnknownFields(tools)
        d1       == Decode(body, 1, data, {"foo"}, disallow)
        tr1      == <<"MaxBytesReader", "Decode(data)">>
    IN  IF d1.err # nil
        THEN [err |-> JSONError(d1.err),
              arg |-> IF d1.err = MaxBytesError THEN maxBytes ELSE 0,
              data |-> d1.v, trace |-> tr1]
        ELSE
        LET probe == ProbeTarget(data)
            d2 == IF probe = "data"
                  THEN Decode(body, d1.pos, d1.v, {"foo"}, disallow)
                  ELSE Decode(body, d1.pos, Throwaway, {}, disallow)
            v2 == IF probe = "data" THEN d2.v ELSE d1.v
            tr2 == Append(tr1, "Decode(" \o probe \o ")")
        IN  IF ~SingleValue(d2.err)
            THEN [err |-> ErrMultiJSON, arg |-> 0, data |-> v2, trace |-> tr2]
            ELSE [err |-> nil, arg |-> 0, data |-> v2, trace |-> tr2]

\* -------------------------------------------------------- encoding/xml
\* (*Decoder).Decode(v): skip to the next start tag and read the element
\* it opens.  depth is the number of open elements.
RECURSIVE xmlElement(_, _, _, _)
xmlElement(stream, i, depth, unused) ==
    IF i > Len(stream.buf)
    THEN [err |-> IF stream.end = EOF
                  THEN IF depth > 0 THEN XMLSyntaxError ELSE EOF
                  ELSE stream.end,
          pos |-> i]
    ELSE LET c == stream.buf[i] IN
         IF c = " " THEN xmlElement(stream, i + 1, depth, unused)
         ELSE IF c = "<" THEN xmlElement(stream, i + 1, depth + 1, unused)
         ELSE IF c = ">"
         THEN IF depth = 0 THEN [err |-> XMLSyntaxError, pos |-> i]
              ELSE IF depth = 1 THEN [err |-> nil, pos |-> i + 1]
              ELSE xmlElement(stream, i + 1, depth - 1, unused)
         ELSE [err |-> XMLSyntaxError, pos |-> i]

XMLDecode(stream, scanp, v) ==
    IF ~v.valid THEN [err |-> XMLNonPointer, pos |-> scanp]
    ELSE xmlElement(stream, scanp, 0, 0)

\* -------------------------------------------------------------- ReadXML
XMLMaxBytes(tools) ==
    IF tools.MaxXMLSize # 0 THEN tools.MaxXMLSize ELSE defaultMaxUpload

ReadXML(tools, r, data) ==
    LET maxBytes == XMLMaxBytes(tools)
        body == MaxBytesReader(r, maxBytes)
        d1   == XMLDecode(body, 1, data)
        tr1  == <<"MaxBytesReader", "Decode(data)">>
    IN  IF d1.err # nil
        THEN [err |-> d1.err, arg |-> 0, data |-> data, trace |-> tr1]
        ELSE
        LET d2  == XMLDecode(body, d1.pos, Throwaway)
            tr2 == Append(tr1, "Decode(&struct{}{})")
        IN  IF ~SingleValue(d2.err)
            THEN [err |-> ErrMultiXML, arg |-> 0, data |-> data, trace |-> tr2]
            ELSE [err |-> nil, arg |-> 0, data |-> data, trace |-> tr2]

\* ------------------------------------------------------------- actions
Pads == {0, defaultMaxUpload}

JSONRequests ==
    {[contentType |-> c, body |-> b, pad |-> p,
      multipart |-> FALSE, files |-> <<>>] :
        c \in ContentTypes, b \in SeqsUpTo(JSONUnits, MaxBodyLen), p \in Pads}

XMLRequests ==
    {[contentType |-> "", body |-> b, pad |-> p,
      multipart |-> FALSE, files |-> <<>>] :
        b \in SeqsUpTo(XMLUnits, MaxBodyLen), p \in Pads}

Dests == {ZeroDest, [ZeroDest EXCEPT !.valid = FALSE]}

\* a handler calls t.ReadJSON(w, r, &data)
DoReadJSON ==
    /\ pc = "idle"
    /\ \E r \in JSONRequests, d \in Dests :
         LET out == ReadJSON(t, r, d) IN
         /\ req' = r
         /\ dest' = out.data
         /\ ret' = [op |-> "ReadJSON", err |-> out.err, arg |-> out.arg,
                    files |-> <<>>]
         /\ trace' = out.trace
         /\ args' = [NoArgs EXCEPT !.tools = t]
    /\ pc' = "done"
    /\ UNCHANGED <<t, w, fs>>
    /\ UNCHANGED parser

\* a handler calls t.ReadXML(w, r, &data)
DoReadXML ==
    /\ pc = "idle"
    /\ \E r \in XMLRequests, d \in Dests :
         LET out == ReadXML(t, r, d) IN
         /\ req' = r
         /\ dest' = out.data
         /\ ret' = [op |-> "ReadXML", err |-> out.err, arg |-> out.arg,
                    files |-> <<>>]
         /\ trace' = out.trace
         /\ args' = [NoArgs EXCEPT !.tools = t]
    /\ pc' = "done"
    /\ UNCHANGED <<t, w, fs>>
    /\ UNCHANGED parser

\* the call has returned; the caller removes the files the call stored (as
\* the tests do) and the next request arrives with fresh values
NextRequest ==
    /\ pc = "done"
    /\ pc' = "idle"
    /\ fs' = [fs EXCEPT !.files = {}]
    /\ req' = NoRequest
    /\ dest' = ZeroDest
    /\ w' = NoResponse
    /\ args' = NoArgs
    /\ ret' = NoReturn
    /\ trace' = <<>>
    /\ scanner' = NoScanner
    /\ key' = <<>>
    /\ queries' = <<>>
    /\ query' = EmptyMap
    /\ UNCHANGED t

\* the paths of the model and a file system in which none of them exists;
\* files are the files of the upload directory, each [name, size]
Paths == {"./testdata/uploads/", "./testdata/myDir"}
NoFiles == [kind |-> [p \in Paths |-> "absent"], files |-> {}]

SizeLimits == {0, 3, defaultMaxUpload}

InitCommon ==
    /\ req = NoRequest
    /\ dest = ZeroDest
    /\ w = NoResponse
    /\ fs = NoFiles
    /\ args = NoArgs
    /\ ret = NoReturn
    /\ trace = <<>>
    /\ pc = "idle"
    /\ scanner = NoScanner
    /\ key = <<>>
    /\ queries = <<>>
    /\ query = EmptyMap

\* the request body decoders
InitRead ==
    /\ InitCommon
    /\ \E j \in SizeLimits, a \in BOOLEAN :
         t = [ZeroTools EXCEPT !.MaxJSONSize = j, !.MaxXMLSize = j,
                               !.AllowUnknownFields = a]

NextRead == DoReadJSON \/ DoReadXML \/ NextRequest

SpecRead == InitRead /\ [][NextRead]_vars

\* ===================================================================
\* Properties of the body decoders (SpecRead)
\* ===================================================================
ReadReturned(op) == pc = "done" /\ ret.op = op

Prefix(s, n) == SubSeq(s, 1, n)
Suffix(s, n) == SubSeq(s, n + 1, Len(s))

\* s is one JSON object and nothing else
IsJSONObject(s) ==
    /\ Len(s) >= 2
    /\ s[1] = "{"
    /\ s[Len(s)] = "}"
    /\ \A i \in 2..(Len(s) - 1) : s[i] \in Members \cup {" "}

\* s is one XML element and nothing else
RECURSIVE XMLDepth(_, _)
XMLDepth(s, n) ==
    IF n = 0 THEN 0
    ELSE XMLDepth(s, n - 1)
         + (IF s[n] = "<" THEN 1 ELSE IF s[n] = ">" THEN -1 ELSE 0)

IsXMLElement(s) ==
    /\ Len(s) >= 2
    /\ s[1] = "<"
    /\ \A i \in 1..Len(s) : s[i] # "x"
    /\ \A i \in 1..(Len(s) - 1) : XMLDepth(s, i) > 0
    /\ XMLDepth(s, Len(s)) = 0

\* s is white space, one JSON object, white space
IsSingleJSONObject(s) ==
    \E i \in 1..Len(s), j \in 1..Len(s) :
        /\ i < j
        /\ IsJSONObject(SubSeq(s, i, j))
        /\ \A k \in (1..(i - 1)) \cup ((j + 1)..Len(s)) : s[k] = " "

MembersOf(s) == {s[i] : i \in {k \in 1..Len(s) : s[k] \in Members}}

BodyLen == Len(req.body) + req.pad

JSONLimit == IF t.MaxJSONSize = 0 THEN 10485760 ELSE t.MaxJSONSize
XMLLimit  == IF t.MaxXMLSize = 0 THEN 10485760 ELSE t.MaxXMLSize

ContentTypeAccepted ==
    req.contentType = "" \/ ToLower(req.contentType) = "application/json"

\* the members a destination with the field foo takes without an error
Acceptable == IF t.AllowUnknownFields THEN {"k", "u"} ELSE {"k"}

\* the body splits after unit n into two documents, the first of which is
\* decoded without an error
TwoJSONDocuments(n) ==
    /\ IsJSONObject(Prefix(req.body, n))
    /\ IsJSONObject(Suffix(req.body, n))
    /\ MembersOf(Prefix(req.body, n)) \subseteq Acceptable
    /\ n <= JSONLimit
    /\ ContentTypeAccepted
    /\ dest.valid

TwoXMLDocuments(n) ==
    /\ IsXMLElement(Prefix(req.body, n))
    /\ IsXMLElement(Suffix(req.body, n))
    /\ n <= XMLLimit
    /\ dest.valid

\* C1: a body of two concatenated documents, the first of which decodes
\* into the destination, makes ReadJSON return the single-JSON-value error
\* and ReadXML the single-XML-value error, never success.
C1_TwoDocumentsRejected ==
    /\ ReadReturned("ReadJSON") =>
         \A n \in 1..Len(req.body) :
             TwoJSONDocuments(n) => ret.err = ErrMultiJSON
    /\ ReadReturned("ReadXML") =>
         \A n \in 1..Len(req.body) :
             TwoXMLDocuments(n) => ret.err = ErrMultiXML

\* two documents, the second of which crosses the size limit
C1_Witness ==
    /\ ReadReturned("ReadJSON")
    /\ \E n \in 1..Len(req.body) : TwoJSONDocuments(n)
    /\ BodyLen > JSONLimit
    /\ ret.err = ErrMultiJSON

\* C2: a body longer than the effective limit makes ReadJSON fail with the
\* not-larger-than error that carries the limit, also when the body is one
\* object the destination takes, followed by white space, and the object
\* lies within the limit.
C2_OversizeIsTooLarge ==
    (/\ ReadReturned("ReadJSON")
     /\ ContentTypeAccepted
     /\ dest.valid
     /\ IsSingleJSONObject(req.body)
     /\ MembersOf(req.body) \subseteq Acceptable
     /\ BodyLen > JSONLimit)
        => (ret.err = ErrTooLarge /\ ret.arg = JSONLimit)

\* C3: one valid document within the limit that matches the destination,
\* sent with no Content-Type or with application/json, is read without an
\* error; the destination is the target of exactly one Decode, the second
\* Decode goes to the throwaway value, and the destination holds the
\* document's value.
C3_SingleDocumentDecodedOnce ==
    (/\ ReadReturned("ReadJSON")
     /\ IsSingleJSONObject(req.body)
     /\ MembersOf(req.body) \subseteq {"k"}
     /\ BodyLen <= JSONLimit
     /\ ContentTypeAccepted
     /\ dest.valid)
        => /\ ret.err = nil
           /\ Count(trace, "Decode(data)") = 1
           /\ trace[Len(trace)] = "Decode(&struct{}{})"
           /\ dest.Foo = (IF "k" \in MembersOf(req.body) THEN "bar" ELSE "")

C3_Witness ==
    /\ ReadReturned("ReadJSON")
    /\ req.body = <<"{", "k", "}", " ">>
    /\ req.contentType = "Application/JSON"
    /\ t.MaxJSONSize = 0
    /\ ret.err = nil
    /\ dest.Foo = "bar"

\* C4: ReadJSON returns the Content-Type error exactly when the header has
\* a value that, in lower case, is not application/json; it then has not
\* wrapped, read or decoded the body and the destination is as it was;
\* with no header value the body is decoded.
C4_ContentTypeCheckedFirst ==
    ReadReturned("ReadJSON") =>
        /\ (req.contentType # "" /\ ToLower(req.contentType) # "application/json")
             <=> ret.err = ErrContentType
        /\ ret.err = ErrContentType => (trace = <<>> /\ dest.Foo = "")
        /\ req.contentType = "" =>
             (Len(trace) >= 2 /\ trace[1] = "MaxBytesReader"
                              /\ trace[2] = "Decode(data)")

C4_Witness ==
    /\ ReadReturned("ReadJSON")
    /\ req.contentType = "text/xml"
    /\ req.body = <<"{", "k", "}">>
    /\ ret.err = ErrContentType
    /\ trace = <<>>

\* C5: an empty body makes ReadJSON fail with the must-not-be-empty error,
\* not with the truncated-input, syntax or single-value error.
C5_EmptyBody ==
    (ReadReturned("ReadJSON") /\ ContentTypeAccepted /\ BodyLen = 0)
        => ret.err = ErrEmptyBody

C5_Witness ==
    /\ ReadReturned("ReadJSON")
    /\ BodyLen = 0
    /\ ~dest.valid
    /\ ret.err = ErrEmptyBody

UnsupportedJSON == "json: unsupported type: chan int"
UnsupportedXML  == "xml: unsupported type: chan int"
xmlHeader == "<?xml version=\"1.0\" encoding=\"UTF-8\"?>\n"

Messages == {"some error", "a<b", ""}

\* a JSON string literal: quoted, with '<' escaped as the encoder does
JSONString(s) ==
    IF s = "a<b" THEN "\"a\\u003cb\"" ELSE "\"" \o s \o "\""

\* XML character data: '<' escaped
XMLText(s) == IF s = "a<b" THEN "a&lt;b" ELSE s

Bool(b) == IF b THEN "true" ELSE "false"

\* json.Marshal(data): the tokens of the output, or the error.  A channel,
\* alone or in the Data field, cannot be serialized; a nil Data is omitted.
jsonMarshal(data) ==
    IF data.kind = "chan" \/ data.Data = "chan"
    THEN [err |-> UnsupportedJSON, out |-> <<>>]
    ELSE [err |-> nil,
          out |-> <<"{", "\"error\":", Bool(data.Error), ",",
                    "\"message\":", JSONString(data.Message)>>
                  \o (IF data.Data = "nil" THEN <<>>
                      ELSE <<",", "\"data\":", JSONString(data.Data)>>)
                  \o <<"}">>]

\* xml.Marshal(data)
xmlMarshal(data) ==
    IF data.kind = "chan" \/ data.Data = "chan"
    THEN [err |-> UnsupportedXML, out |-> <<>>]
    ELSE [err |-> nil,
          out |-> <<"<XMLResponse>", "<error>", Bool(data.Error), "</error>",
                    "<message>", XMLText(data.Message), "</message>">>
                  \o (IF data.Data = "nil" THEN <<>>
                      ELSE <<"<data>", XMLText(data.Data), "</data>">>)
                  \o <<"</XMLResponse>">>]

\* for key, value := range headers[0] { w.Header()[key] = value }
MergeHeaders(header, headers) ==
    IF Len(headers) > 0
    THEN [k \in HeaderKeys |->
            IF headers[1][k] # <<>> THEN headers[1][k] ELSE header[k]]
    ELSE header

\* w.Header().Set(key, value)
HeaderSet(header, k, value) == [header EXCEPT ![k] = <<value>>]

\* a Send that sets the Content-Type before it merges the caller's headers
Send_ContentTypeFirst(w0, status, out, headers, contentType) ==
    [header |-> MergeHeaders(HeaderSet(w0.header, "Content-Type",
                                       contentType), headers),
     status |-> status,
     body   |-> w0.body \o out]

\* the steps after a successful Marshal: headers, Content-Type, status, body
Send(w0, status, out, headers, contentType) ==
    [header |-> HeaderSet(MergeHeaders(w0.header, headers),
                          "Content-Type", contentType),
     status |-> status,
     body   |-> w0.body \o out]

SendTrace(headers) ==
    (IF Len(headers) > 0 THEN <<"merge headers">> ELSE <<>>)
    \o <<"Set Content-Type", "WriteHeader", "Write">>

\* a WriteJSON that merges and sets the headers before it serializes
WriteJSON_HeadersFirst(w0, status, data, headers) ==
    LET m == jsonMarshal(data) IN
    IF m.err # nil
    THEN [w |-> [w0 EXCEPT !.header =
                    HeaderSet(MergeHeaders(w0.header, headers),
                              "Content-Type", "application/json")],
          err |-> m.err, trace |-> <<"merge headers", "json.Marshal">>]
    ELSE [w |-> Send(w0, status, m.out, headers, "application/json"),
          err |-> nil, trace |-> <<"json.Marshal">> \o SendTrace(headers)]

WriteJSON(w0, status, data, headers) ==
    LET m == jsonMarshal(data) IN
    IF m.err # nil
    THEN [w |-> w0, err |-> m.err, trace |-> <<"json.Marshal">>]
    ELSE [w |-> Send(w0, status, m.out, headers, "application/json"),
          err |-> nil, trace |-> <<"json.Marshal">> \o SendTrace(headers)]

WriteXML(w0, status, data, headers) ==
    LET m == xmlMarshal(data) IN
    IF m.err # nil
    THEN [w |-> w0, err |-> m.err, trace |-> <<"xml.Marshal">>]
    ELSE [w |-> Send(w0, status, <<xmlHeader>> \o m.out, headers,
                     "application/xml"),
          err |-> nil, trace |-> <<"xml.Marshal">> \o SendTrace(headers)]

\* a status code that ignores the optional argument
statusCode_Always400(status) == StatusBadRequest

\* statusCode of ErrorJSON and ErrorXML
statusCode(status) ==
    IF Len(status) > 0 THEN status[1] ELSE StatusBadRequest

\* payload of ErrorJSON and ErrorXML
ErrorPayload(err) ==
    [kind |-> "response", Error |-> TRUE, Message |-> err, Data |-> "nil"]

ErrorJSON(w0, err, status) ==
    WriteJSON(w0, statusCode(status), ErrorPayload(err), <<>>)

ErrorXML(w0, err, status) ==
    WriteXML(w0, statusCode(status), ErrorPayload(err), <<>>)

\* ------------------------------------------------------------- actions
Statuses == {200, 400, 503}

Payloads ==
    {[kind |-> "chan", Error |-> FALSE, Message |-> "", Data |-> "nil"]}
    \cup {[kind |-> "response", Error |-> e, Message |-> m, Data |-> d] :
            e \in BOOLEAN, m \in Messages, d \in {"nil", "some error", "chan"}}

NoHeader == [k \in HeaderKeys |-> <<>>]

\* the optional headers argument: none, or one http.Header
HeaderArgs ==
    {<<>>,
     <<[NoHeader EXCEPT !["Foo"] = <<"BAR">>]>>,
     <<[NoHeader EXCEPT !["Content-Type"] = <<"text/plain">>]>>,
     <<[NoHeader EXCEPT !["content-type"] = <<"text/plain">>,
                        !["Foo"] = <<"BAR", "BAZ">>]>>}

\* the optional status argument of ErrorJSON and ErrorXML
StatusArgs == {<<>>} \cup {<<a>> : a \in Statuses}
              \cup {<<a, b>> : a \in Statuses, b \in Statuses}

Returned(op, out) ==
    /\ w' = out.w
    /\ ret' = [op |-> op, err |-> out.err, arg |-> 0, files |-> <<>>]
    /\ trace' = out.trace
    /\ pc' = "done"
    /\ UNCHANGED <<t, req, dest, fs>>
    /\ UNCHANGED parser

\* a handler calls t.WriteJSON(w, status, data, headers...)
DoWriteJSON ==
    /\ pc = "idle"
    /\ \E st \in Statuses, d \in Payloads, h \in HeaderArgs :
         /\ args' = [NoArgs EXCEPT !.tools = t, !.data = d, !.status = <<st>>,
                                   !.headers = h]
         /\ Returned("WriteJSON", WriteJSON(w, st, d, h))

\* a handler calls t.WriteXML(w, status, data, headers...)
DoWriteXML ==
    /\ pc = "idle"
    /\ \E st \in Statuses, d \in Payloads, h \in HeaderArgs :
         /\ args' = [NoArgs EXCEPT !.tools = t, !.data = d, !.status = <<st>>,
                                   !.headers = h]
         /\ Returned("WriteXML", WriteXML(w, st, d, h))

\* a handler calls t.ErrorJSON(w, err, status...)
DoErrorJSON ==
    /\ pc = "idle"
    /\ \E e \in Messages, st \in StatusArgs :
         /\ args' = [NoArgs EXCEPT !.tools = t, !.err = e, !.status = st]
         /\ Returned("ErrorJSON", ErrorJSON(w, e, st))

\* a handler calls t.ErrorXML(w, err, status...)
DoErrorXML ==
    /\ pc = "idle"
    /\ \E e \in Messages, st \in StatusArgs :
         /\ args' = [NoArgs EXCEPT !.tools = t, !.err = e, !.status = st]
         /\ Returned("ErrorXML", ErrorXML(w, e, st))

InitWrite ==
    /\ InitCommon
    /\ t \in {ZeroTools, New}

NextWrite ==
    DoWriteJSON \/ DoWriteXML \/ DoErrorJSON \/ DoErrorXML \/ NextRequest

SpecWrite == InitWrite /\ [][NextWrite]_vars

\* ===================================================================
\* Properties of the body encoders (SpecWrite)
\* ===================================================================
Unserializable(d) == d.kind = "chan" \/ d.Data = "chan"

\* C7: when the payload cannot be serialized, WriteJSON and WriteXML return
\* the serialization error and leave the response as it was: no caller
\* header merged, no Content-Type set, no status and no body written.
C7_UnserializableLeavesResponse ==
    (pc = "done" /\ ret.op \in {"WriteJSON", "WriteXML"}
                 /\ Unserializable(args.data))
        => /\ ret.err = (IF ret.op = "WriteJSON" THEN UnsupportedJSON
                         ELSE UnsupportedXML)
           /\ \A k \in HeaderKeys : w.header[k] = <<>>
           /\ w.status = 0
           /\ w.body = <<>>
           /\ \A i \in 1..Len(trace) :
                trace[i] \notin {"merge headers", "Set Content-Type",
                                 "WriteHeader", "Write"}

C7_Witness ==
    /\ pc = "done"
    /\ ret.op = "WriteJSON"
    /\ args.data.kind = "response"
    /\ args.data.Data = "chan"
    /\ Len(args.headers) > 0
    /\ ret.err = UnsupportedJSON
    /\ w.status = 0

\* the text a JSON string literal stands for
JSONStringText(lit) ==
    CHOOSE m \in Messages :
        lit = (IF m = "a<b" THEN "\"a\\u003cb\"" ELSE "\"" \o m \o "\"")

\* the text XML character data stands for
XMLTextText(cd) == IF cd = "a&lt;b" THEN "a<b" ELSE cd

\* C8: ErrorJSON and ErrorXML send an envelope whose error is true and
\* whose message is the error's text (and no data), with status 400 when
\* no status argument is given and with the first status argument
\* otherwise.
C8_ErrorEnvelope ==
    /\ (pc = "done" /\ ret.op = "ErrorJSON") =>
         /\ ret.err = nil
         /\ w.body[1] = "{" /\ w.body[2] = "\"error\":" /\ w.body[3] = "true"
         /\ w.body[5] = "\"message\":"
         /\ JSONStringText(w.body[6]) = args.err
         /\ w.body[7] = "}" /\ Len(w.body) = 7
    /\ (pc = "done" /\ ret.op = "ErrorXML") =>
         /\ ret.err = nil
         /\ w.body[3] = "<error>" /\ w.body[4] = "true"
         /\ w.body[6] = "<message>"
         /\ XMLTextText(w.body[7]) = args.err
         /\ Len(w.body) = 9
    /\ (pc = "done" /\ ret.op \in {"ErrorJSON", "ErrorXML"}) =>
         w.status = (IF args.status = <<>> THEN 400 ELSE args.status[1])

C8_Witness ==
    /\ pc = "done"
    /\ ret.op = "ErrorXML"
    /\ args.err = "a<b"
    /\ args.status = <<503, 200>>
    /\ w.status = 503

\* ===================================================================
\* The upload processor: UploadFiles, CreateDirIfNotExist
\* ===================================================================
ErrParseForm        == "error parsing form data: %v"
ErrFileTooBig       == "the uploaded file is too big, and must be less than %d"
ErrTypeNotPermitted == "the uploaded file type is not permitted"
ErrMkdir            == "mkdir: permission denied"
ErrOpen             == "open: no such file or directory"
ErrSeek             == "seek: invalid argument"
ErrCreate           == "open: not a directory or permission denied"
ErrCopy             == "write: no space left on device"

UploadsDir == "./testdata/uploads/"

\* the content of an uploaded file: its length and what its first bytes are
Contents ==
    {[Size |-> 0, magic |-> "none"],
     [Size |-> 100, magic |-> "png"],
     [Size |-> 100, magic |-> "jpeg"],
     [Size |-> 100, magic |-> "text"],
     [Size |-> SniffLen, magic |-> "text"],
     [Size |-> defaultMaxUpload, magic |-> "png"],
     [Size |-> defaultMaxUpload + 1, magic |-> "png"]}

FileNames == {"a.png", "b.txt"}

\* the multipart.FileHeader values of a form: Filename, Size and content;
\* the files of 100 bytes come under either name
FormFiles ==
    {[Filename |-> n, Size |-> c.Size, magic |-> c.magic] :
        n \in FileNames, c \in {x \in Contents : x.Size = 100}}
    \cup {[Filename |-> "a.png", Size |-> c.Size, magic |-> c.magic] :
             c \in Contents}

\* filepath.Ext
Ext(name) == IF name = "a.png" THEN ".png" ELSE ".txt"

\* t.RandomString(25) for the i-th file: any string may come out, also the
\* one that came out before
RandomName(i, collide) ==
    IF collide THEN "rnd1" ELSE IF i = 1 THEN "rnd1"
    ELSE IF i = 2 THEN "rnd2" ELSE "rnd3"

\* http.DetectContentType(buff): buff holds the first 512 bytes of the file
\* and zero bytes after them, which make a short text file binary
DetectContentType(f) ==
    CASE f.magic = "png"  -> "image/png"
      [] f.magic = "jpeg" -> "image/jpeg"
      [] f.magic = "text" /\ f.Size >= SniffLen -> "text/plain; charset=utf-8"
      [] OTHER -> "application/octet-stream"

\* a comparison of the sniffed type that minds the case
TypeMatches_CaseSensitive(filetype, x) == filetype = x

\* strings.EqualFold(filetype, x)
TypeMatches(filetype, x) == EqualFold(filetype, x)

\* the allow-list loop of UploadFiles
Allowed(types, filetype) ==
    IF Len(types) > 0
    THEN \E k \in 1..Len(types) : TypeMatches(filetype, types[k])
    ELSE TRUE

\* a size check that also rejects a file of exactly the maximum size
TooBig_OrEqual(size, max) == size >= max

\* hdr.Size > int64(t.MaxFileSize)
TooBig(size, max) == size > max

\* a CreateDirIfNotExist that calls MkdirAll without asking Stat first
CreateDirIfNotExist_NoStat(f, path, mkdirFails) ==
    IF mkdirFails THEN [fs |-> f, err |-> ErrMkdir]
    ELSE [fs |-> [f EXCEPT !.kind[path] = "dir"], err |-> nil]

\* CreateDirIfNotExist(path): MkdirAll when Stat says the path does not
\* exist; mkdirFails is whether MkdirAll fails
CreateDirIfNotExist(f, path, mkdirFails) ==
    IF f.kind[path] = "absent"
    THEN IF mkdirFails THEN [fs |-> f, err |-> ErrMkdir]
         ELSE [fs |-> [f EXCEPT !.kind[path] = "dir"], err |-> nil]
    ELSE [fs |-> f, err |-> nil]

\* os.Create(name) in the upload directory: the file exists and is empty
Create(files, name) ==
    {x \in files : x.name # name} \cup {[name |-> name, size |-> 0]}

\* io.Copy(outfile, infile): the file holds the n bytes copied
Copy(files, name, n) ==
    {x \in files : x.name # name} \cup {[name |-> name, size |-> n]}

\* a failing function literal that hands back the list it was given
FailedList_Kept(uploadedFiles) == uploadedFiles

\* return nil, err in the function literal: the list the loop is left with
FailedList(uploadedFiles) == <<>>

\* a Read that reports no error on a file without bytes
Read_NoEOF(size) == nil

\* the error of infile.Read(buff): io.EOF when the file has no byte to give
Read(size) == IF size = 0 THEN EOF ELSE nil

\* The function literal of UploadFiles, run for the i-th file hdr of the
\* form.  st is [fs, uploadedFiles, trace]; fault is the step and the file
\* at which the operating system fails, if it does.
UploadOne(tools, hdr, i, uploadDir, renameFile, collide, fault, st) ==
    LET fail(e, a, tr, f) ==
            [fs |-> f, uploadedFiles |-> FailedList(st.uploadedFiles),
             trace |-> tr, err |-> e, arg |-> a]
        tr1 == Append(st.trace, <<"Open", i>>)
        tr2 == Append(tr1, <<"Read", i>>)
        tr3 == Append(tr2, <<"DetectContentType", i>>)
        tr4 == Append(tr3, <<"Seek", i>>)
        tr5 == Append(tr4, <<"Create", i>>)
        tr6 == Append(tr5, <<"Copy", i>>)
        NewFileName == IF renameFile
                       THEN RandomName(i, collide) \o Ext(hdr.Filename)
                       ELSE hdr.Filename
        created == [st.fs EXCEPT !.files = Create(st.fs.files, NewFileName)]
        copied  == [st.fs EXCEPT
                       !.files = Copy(st.fs.files, NewFileName, hdr.Size)]
    IN  IF fault = <<"Open", i>> THEN fail(ErrOpen, 0, st.trace, st.fs)
        ELSE IF TooBig(hdr.Size, tools.MaxFileSize)
        THEN fail(ErrFileTooBig, tools.MaxFileSize, tr1, st.fs)
        ELSE IF Read(hdr.Size) # nil THEN fail(Read(hdr.Size), 0, tr2, st.fs)
        ELSE IF ~Allowed(tools.AllowedFileTypes, DetectContentType(hdr))
        THEN fail(ErrTypeNotPermitted, 0, tr3, st.fs)
        ELSE IF fault = <<"Seek", i>> THEN fail(ErrSeek, 0, tr3, st.fs)
        ELSE IF fault = <<"Create", i>> \/ st.fs.kind[uploadDir] # "dir"
        THEN fail(ErrCreate, 0, tr4, st.fs)
        ELSE IF fault = <<"Copy", i>> THEN fail(ErrCopy, 0, tr5, created)
        ELSE [fs |-> copied,
              uploadedFiles |->
                  Append(st.uploadedFiles,
                         [NewFileName |-> NewFileName,
                          OriginalFileName |-> hdr.Filename,
                          FileSize |-> hdr.Size]),
              trace |-> tr6, err |-> nil, arg |-> 0]

\* a loop that goes on to the next file whatever the function literal returned
Aborts_Never(err) == FALSE

\* if err != nil { return uploadedFiles, err } after the function literal
Aborts(err) == err # nil

\* the loops over the files of the form, files being the file headers in the
\* order the loops visit them; they return at the first error
RECURSIVE UploadLoop(_, _, _, _, _, _, _, _)
UploadLoop(tools, files, i, uploadDir, renameFile, collide, fault, st) ==
    IF i > Len(files) THEN st
    ELSE LET one == UploadOne(tools, files[i], i, uploadDir, renameFile,
                              collide, fault, st)
         IN IF Aborts(one.err) THEN one
            ELSE UploadLoop(tools, files, i + 1, uploadDir, renameFile,
                            collide, fault, one)

\* renameFile of UploadFiles and UploadOneFile
RenameFile(rename) == IF Len(rename) > 0 THEN rename[1] ELSE TRUE

\* UploadFiles(r, uploadDir, rename...).  The result holds the Tools value
\* and the file system as the call leaves them.
UploadFiles(tools, f, r, uploadDir, rename, collide, fault) ==
    LET mk == CreateDirIfNotExist(f, uploadDir, fault = <<"MkdirAll", 0>>)
        tr1 == <<<<"CreateDirIfNotExist", 0>>>>
        tools1 == IF tools.MaxFileSize = 0
                  THEN [tools EXCEPT !.MaxFileSize = defaultMaxUpload]
                  ELSE tools
        tr2 == Append(tr1, <<"ParseMultipartForm", 0>>)
    IN  IF mk.err # nil
        THEN [t |-> tools, fs |-> mk.fs, uploadedFiles |-> <<>>,
              err |-> mk.err, arg |-> 0, trace |-> tr1]
        ELSE IF ~r.multipart
        THEN [t |-> tools1, fs |-> mk.fs, uploadedFiles |-> <<>>,
              err |-> ErrParseForm, arg |-> 0, trace |-> tr2]
        ELSE LET out == UploadLoop(tools1, r.files, 1, uploadDir,
                                   RenameFile(rename), collide, fault,
                                   [fs |-> mk.fs, uploadedFiles |-> <<>>,
                                    trace |-> tr2, err |-> nil, arg |-> 0])
             IN [t |-> tools1, fs |-> out.fs,
                 uploadedFiles |-> out.uploadedFiles,
                 err |-> out.err, arg |-> out.arg, trace |-> out.trace]

\* files[0] of a list that is empty
ErrIndexOutOfRange == "panic: runtime error: index out of range [0] with length 0"

\* UploadOneFile(r, uploadDir, rename...): the first record UploadFiles
\* returned; indexing the empty list panics
UploadOneFile(tools, f, r, uploadDir, rename, collide, fault) ==
    LET renameFile == RenameFile(rename)
        out == UploadFiles(tools, f, r, uploadDir, <<renameFile>>, collide,
                           fault)
    IN  IF out.err # nil THEN out
        ELSE IF Len(out.uploadedFiles) = 0
        THEN [out EXCEPT !.err = ErrIndexOutOfRange]
        ELSE [out EXCEPT !.uploadedFiles = <<out.uploadedFiles[1]>>]

\* ------------------------------------------------------------- actions
\* the requests that carry a form, and one that is not multipart
UploadRequests ==
    {[contentType |-> "multipart/form-data", body |-> <<>>, pad |-> 0,
      multipart |-> TRUE, files |-> fl] :
        fl \in SeqsUpTo(FormFiles, MaxFiles)}
    \cup {[NoRequest EXCEPT !.contentType = "application/json"]}

\* where the operating system may fail during a call on n files: a failure
\* at an earlier file is the failure at the last file of a shorter form
Faults(n) ==
    {<<"none", 0>>, <<"MkdirAll", 0>>}
    \cup {<<s, i>> : s \in {"Open", "Seek", "Create", "Copy"}, i \in {n} \ {0}}

\* the optional rename argument, and whether RandomString repeats itself
RenameArgs == {<<<<>>, FALSE>>, <<<<TRUE>>, FALSE>>, <<<<TRUE>>, TRUE>>,
               <<<<FALSE>>, FALSE>>}

\* a handler calls t.UploadFiles(r, uploadDir, rename...)
DoUploadFiles ==
    /\ pc = "idle"
    /\ \E r \in UploadRequests, rn \in RenameArgs :
         \E fault \in Faults(Len(r.files)) :
            LET out == UploadFiles(t, fs, r, UploadsDir, rn[1], rn[2], fault)
            IN /\ req' = r
               /\ args' = [NoArgs EXCEPT !.tools = t, !.uploadDir = UploadsDir,
                                         !.rename = rn[1], !.collide = rn[2],
                                         !.fault = fault]
               /\ t' = out.t
               /\ fs' = out.fs
               /\ ret' = [op |-> "UploadFiles", err |-> out.err,
                          arg |-> out.arg, files |-> out.uploadedFiles]
               /\ trace' = out.trace
    /\ pc' = "done"
    /\ UNCHANGED <<dest, w>>
    /\ UNCHANGED parser

\* a handler calls t.UploadOneFile(r, uploadDir, rename...); the failures of
\* the operating system are those of UploadFiles, of which one is kept here
DoUploadOneFile ==
    /\ pc = "idle"
    /\ \E r \in UploadRequests, rn \in {x \in RenameArgs : ~x[2]} :
         \E fault \in {x \in Faults(Len(r.files)) : x[1] \in {"none", "Open"}} :
            LET out == UploadOneFile(t, fs, r, UploadsDir, rn[1], rn[2], fault)
            IN /\ req' = r
               /\ args' = [NoArgs EXCEPT !.tools = t, !.uploadDir = UploadsDir,
                                         !.rename = rn[1], !.collide = rn[2],
                                         !.fault = fault]
               /\ t' = out.t
               /\ fs' = out.fs
               /\ ret' = [op |-> "UploadOneFile", err |-> out.err,
                          arg |-> out.arg, files |-> out.uploadedFiles]
               /\ trace' = out.trace
    /\ pc' = "done"
    /\ UNCHANGED <<dest, w>>
    /\ UNCHANGED parser

\* a caller calls t.CreateDirIfNotExist(path)
DoCreateDirIfNotExist ==
    /\ pc = "idle"
    /\ \E p \in Paths, mkdirFails \in BOOLEAN :
         LET out == CreateDirIfNotExist(fs, p, mkdirFails) IN
         /\ args' = [NoArgs EXCEPT !.tools = t, !.uploadDir = p,
                        !.fault = IF mkdirFails THEN <<"MkdirAll", 0>>
                                  ELSE <<"none", 0>>]
         /\ fs' = out.fs
         /\ ret' = [op |-> "CreateDirIfNotExist", err |-> out.err,
                    arg |-> 0, files |-> <<>>]
         /\ trace' = <<<<"CreateDirIfNotExist", 0>>>>
    /\ pc' = "done"
    /\ UNCHANGED <<t, req, dest, w>>
    /\ UNCHANGED parser

FileSizeLimits == {0, 100}

AllowLists == {<<>>, <<"image/jpeg">>, <<"image/jpeg", "IMAGE/PNG">>}

\* the upload directory does not exist, exists, or is a regular file
InitUpload ==
    /\ req = NoRequest
    /\ dest = ZeroDest
    /\ w = NoResponse
    /\ args = NoArgs
    /\ ret = NoReturn
    /\ trace = <<>>
    /\ pc = "idle"
    /\ scanner = NoScanner
    /\ key = <<>>
    /\ queries = <<>>
    /\ query = EmptyMap
    /\ \E k \in {"absent", "dir", "file"} :
         fs = [NoFiles EXCEPT !.kind[UploadsDir] = k]
    /\ \E m \in FileSizeLimits, a \in AllowLists :
         t = [ZeroTools EXCEPT !.MaxFileSize = m, !.AllowedFileTypes = a]

NextUpload ==
    DoUploadFiles \/ DoUploadOneFile \/ DoCreateDirIfNotExist \/ NextRequest

SpecUpload == InitUpload /\ [][NextUpload]_vars

\* ===================================================================
\* Properties of the upload processor (SpecUpload)
\* ===================================================================
UploadReturned == pc = "done" /\ ret.op = "UploadFiles"

Did(step, i) == \E k \in 1..Len(trace) : trace[k] = <<step, i>>

LastStep == trace[Len(trace)]

\* the allow-list of the call has an entry that is the type, case ignored
Listed(type) ==
    \E k \in 1..Len(args.tools.AllowedFileTypes) :
        ToLower(args.tools.AllowedFileTypes[k]) = ToLower(type)

\* C9: with a non-empty allow-list none of whose entries is, case ignored,
\* the type sniffed from a file, UploadFiles fails with the not-permitted
\* error and creates no destination file for that file; a file whose type
\* is listed, and every file when the list is empty, passes the type check.
C9_AllowListBeforeCreate ==
    UploadReturned =>
        /\ \A i \in 1..Len(req.files) :
             Did("DetectContentType", i) =>
                IF /\ Len(args.tools.AllowedFileTypes) > 0
                   /\ ~Listed(DetectContentType(req.files[i]))
                THEN /\ ret.err = ErrTypeNotPermitted
                     /\ LastStep = <<"DetectContentType", i>>
                     /\ ~Did("Create", i)
                     /\ ret.files = <<>>
                ELSE ret.err = ErrTypeNotPermitted => Did("Copy", i)
        /\ ret.err = ErrTypeNotPermitted => LastStep[1] = "DetectContentType"

\* the second file is a PNG that the list ["image/jpeg"] does not permit
C9_Witness ==
    /\ UploadReturned
    /\ Len(req.files) = 2
    /\ args.tools.AllowedFileTypes = <<"image/jpeg">>
    /\ req.files[2].magic = "png"
    /\ Did("Copy", 1)
    /\ ret.err = ErrTypeNotPermitted
    /\ ~Did("Create", 2)

\* the maximum file size of the call
FileLimit ==
    IF args.tools.MaxFileSize = 0 THEN 10485760 ELSE args.tools.MaxFileSize

\* C10: a file that UploadFiles has opened is rejected on size exactly when
\* its declared size is greater than the effective maximum; the call then
\* fails with the too-big error before the file is sniffed and before a
\* destination file is created for it; a file of exactly the maximum size
\* goes on to be sniffed.
C10_SizeCheck ==
    UploadReturned =>
        \A i \in 1..Len(req.files) :
            Did("Open", i) =>
                IF req.files[i].Size > FileLimit
                THEN /\ ret.err = ErrFileTooBig
                     /\ ret.arg = FileLimit
                     /\ LastStep = <<"Open", i>>
                     /\ ~Did("Read", i) /\ ~Did("Create", i)
                ELSE /\ Did("Read", i)
                     /\ ret.err = ErrFileTooBig => Did("Copy", i)

\* MaxFileSize is 0: a file of 10485761 bytes is rejected
C10_Witness ==
    /\ UploadReturned
    /\ args.tools.MaxFileSize = 0
    /\ Len(req.files) = 2
    /\ req.files[1].Size = 10485760
    /\ Did("Copy", 1)
    /\ req.files[2].Size = 10485761
    /\ ret.err = ErrFileTooBig
    /\ ret.arg = 10485760

\* the name under which the i-th file of the call is stored
StoredName(i) ==
    IF RenameFile(args.rename)
    THEN RandomName(i, args.collide) \o Ext(req.files[i].Filename)
    ELSE req.files[i].Filename

\* C11: when UploadFiles returns without an error, and RandomString did not
\* repeat itself, the list holds one record per file of the form, in order,
\* each with the submitted name as OriginalFileName, and for every record
\* the upload directory holds a file named NewFileName of FileSize bytes,
\* whatever the number of files and the rename flag.
C11_RecordsMatchStoredFiles ==
    (UploadReturned /\ ret.err = nil /\ ~args.collide) =>
        /\ Len(ret.files) = Len(req.files)
        /\ \A i \in 1..Len(ret.files) :
             /\ ret.files[i].OriginalFileName = req.files[i].Filename
             /\ ret.files[i].FileSize = req.files[i].Size
             /\ \E x \in fs.files :
                  /\ x.name = ret.files[i].NewFileName
                  /\ x.size = ret.files[i].FileSize

\* the call failed while it processed a file of the form
FileFailed ==
    /\ UploadReturned
    /\ ret.err \notin {nil, ErrMkdir, ErrParseForm}

\* the file at which the call failed: Open leaves no step behind
FailedAt == IF ret.err = ErrOpen THEN args.fault[2] ELSE LastStep[2]

\* C12: when the k-th file of the form fails, UploadFiles returns that
\* failure and no list; no step is taken for a later file, and every
\* earlier file has been copied and its destination file is still in the
\* upload directory, with its bytes unless a file up to the k-th was stored
\* under the same name.
C12_FirstFailureAborts ==
    FileFailed =>
        /\ FailedAt \in 1..Len(req.files)
        /\ ret.files = <<>>
        /\ \A k \in 1..Len(trace) : trace[k][2] <= FailedAt
        /\ \A i \in 1..(FailedAt - 1) :
             /\ Did("Copy", i)
             /\ \E x \in fs.files :
                  /\ x.name = StoredName(i)
                  /\ (\A j \in (1..FailedAt) \ {i} :
                         StoredName(j) # StoredName(i))
                        => x.size = req.files[i].Size

\* the first of two files is too big: the second is never opened; and the
\* second of two files fails on its type while the first stays stored
C12_Witness ==
    /\ FileFailed
    /\ Len(req.files) = 2
    /\ \/ /\ ret.err = ErrFileTooBig
          /\ FailedAt = 1
          /\ req.files[2].Size = 100
          /\ ~Did("Open", 2)
       \/ /\ ret.err = ErrTypeNotPermitted
          /\ FailedAt = 2
          /\ fs.files = {[name |-> StoredName(1), size |-> req.files[1].Size]}

\* C13: UploadOneFile returns a record without an error only when the form
\* carries exactly one file, and the record is that file's.
C13_ExactlyOneFile ==
    (pc = "done" /\ ret.op = "UploadOneFile" /\ ret.err = nil) =>
        /\ Len(req.files) = 1
        /\ Len(ret.files) = 1
        /\ ret.files[1].OriginalFileName = req.files[1].Filename
        /\ ret.files[1].FileSize = req.files[1].Size

\* a call of CreateDirIfNotExist on path p that returned no error
DirCallSucceeded(p) ==
    /\ pc = "done"
    /\ ret.op = "CreateDirIfNotExist"
    /\ args.uploadDir = p
    /\ ret.err = nil

\* C14: CreateDirIfNotExist is idempotent: once a call on a path has
\* returned no error the path exists, it goes on existing, and a call on a
\* path that exists returns no error and leaves the file system as it was,
\* also where MkdirAll would fail.
C14_CreateDirIdempotent ==
    /\ [](\A p \in Paths : DirCallSucceeded(p) => fs.kind[p] # "absent")
    /\ [][\A p \in Paths :
            fs.kind[p] # "absent" =>
                /\ fs'.kind[p] # "absent"
                /\ DirCallSucceeded(p)' => fs' = fs]_vars
    /\ [][\A p \in Paths :
            (/\ fs.kind[p] # "absent"
             /\ pc = "idle" /\ pc' = "done"
             /\ ret'.op = "CreateDirIfNotExist"
             /\ args'.uploadDir = p) => ret'.err = nil]_vars

\* a second call on ./testdata/myDir, which no state starts with, returns
\* no error although MkdirAll would fail
C14_Witness ==
    /\ DirCallSucceeded("./testdata/myDir")
    /\ fs.kind["./testdata/myDir"] = "dir"
    /\ args.fault = <<"MkdirAll", 0>>

\* ===================================================================
\* The SQL query loader: LoadSQLQueries, parseSQLQueries
\* ===================================================================
\* A line is a sequence of lexical units: "--", " ", a verb, a word ("A",
\* "B", "x"), ";", and "LONG", a run of characters longer than the scanner's
\* buffer.
ErrNoSuchFile == "open: no such file or directory"
ErrReadingFile == "error reading file: bufio.Scanner: token too long"

\* strings.HasPrefix, strings.HasSuffix
HasPrefix(str, prefix) ==
    Len(str) >= Len(prefix) /\ SubSeq(str, 1, Len(prefix)) = prefix

HasSuffix(str, suffix) ==
    /\ Len(str) >= Len(suffix)
    /\ SubSeq(str, Len(str) - Len(suffix) + 1, Len(str)) = suffix

\* strings.TrimSpace
TrimSpace(str) ==
    LET ns == {i \in 1..Len(str) : str[i] # " "}
    IN  IF ns = {} THEN <<>>
        ELSE SubSeq(str, CHOOSE i \in ns : \A j \in ns : i <= j,
                         CHOOSE i \in ns : \A j \in ns : i >= j)

\* strings.Index: where sep first occurs in str, 0 if it does not
Index(str, sep) ==
    LET at == {i \in 1..Len(str) : HasPrefix(SubSeq(str, i, Len(str)), sep)}
    IN  IF at = {} THEN 0 ELSE CHOOSE i \in at : \A j \in at : i <= j

\* a Join that puts nothing between the elements
RECURSIVE Join_NoSeparator(_)
Join_NoSeparator(elems) ==
    IF Len(elems) = 0 THEN <<>>
    ELSE elems[1] \o Join_NoSeparator(Tail(elems))

\* strings.Join(elems, " ")
RECURSIVE Join(_)
Join(elems) ==
    IF Len(elems) = 0 THEN <<>>
    ELSE IF Len(elems) = 1 THEN elems[1]
    ELSE elems[1] \o <<" ">> \o Join(Tail(elems))

\* a comment marker that does not ask for the space after the dashes
HeaderPrefix_NoSpace == <<"--">>

\* the "-- " of isSQLQuery and extractKey
HeaderPrefix == <<"--", " ">>

\* hasPrefixInList(str, prefixes)
hasPrefixInList(str, prefixes) ==
    \E k \in 1..Len(prefixes) : HasPrefix(str, prefixes[k])

\* isSQLQuery(line)
isSQLQuery(line) ==
    hasPrefixInList(line, <<HeaderPrefix, <<"SELECT">>, <<"INSERT">>,
                            <<"UPDATE">>, <<"DELETE">>>>)

\* an extractKey that makes a line without the comment marker its own key
extractKey_WholeLine(line) ==
    IF HasPrefix(line, HeaderPrefix)
    THEN SubSeq(line, Len(HeaderPrefix) + 1, Len(line))
    ELSE line

\* extractKey(line): strings.Split(line, "-- ")[1], the text between the
\* first "-- " and the next one
extractKey(line) ==
    IF HasPrefix(line, HeaderPrefix)
    THEN LET rest == SubSeq(line, Len(HeaderPrefix) + 1, Len(line))
             next == Index(rest, HeaderPrefix)
         IN IF next = 0 THEN rest ELSE SubSeq(rest, 1, next - 1)
    ELSE <<>>

\* a terminator test that every line passes
Terminated_Always(line) == TRUE

\* strings.HasSuffix(line, ";")
Terminated(line) == HasSuffix(line, <<";">>)

\* an assignment that keeps the entry a key already has
Store_KeepFirst(m, k, v) ==
    [x \in DOMAIN m \cup {k} |-> IF x \in DOMAIN m THEN m[x] ELSE v]

\* query[key] = strings.Join(queries, " ")
Store(m, k, v) == [x \in DOMAIN m \cup {k} |-> IF x = k THEN v ELSE m[x]]

\* a test that lets a line beginning with "-- " start a new block
Appends_UnlessHeader(k, line) == Len(k) > 0 /\ ~HasPrefix(line, HeaderPrefix)

\* a test that appends a recognized line whether or not a key is set
Appends_Always(k, line) == TRUE

\* the inner if len(key) > 0: the line goes to the block of the key
Appends(k, line) == Len(k) > 0

\* the scanner gives up on a line longer than bufio.MaxScanTokenSize
TooLong(line) == \E i \in 1..Len(line) : line[i] = "LONG"

\* the lines a file is made of
SQLLines ==
    {<<"--", " ", "A">>,
     <<" ", "--", " ", "B", " ">>,
     <<"SELECT", " ", "x">>,
     <<"UPDATE", " ", "x", ";">>,
     <<" ", "x", ";", " ">>,
     <<"x">>,
     <<" ">>,
     <<"--", "A">>,
     <<"--", " ", "--", " ", "A">>,
     <<"LONG">>}

SQLFiles == SeqsUpTo(SQLLines, MaxLines)

FileNamesSQL == {"./testdata/not.sql", "./testdata/test.sql"}

\* t.LoadSQLQueries(fileName): os.Open fails for the file that is not there;
\* otherwise parseSQLQueries starts on the lines of the file
DoLoadSQLQueries ==
    /\ pc = "idle"
    /\ \E fileName \in FileNamesSQL :
         /\ args' = [NoArgs EXCEPT !.tools = t, !.fileName = fileName]
         /\ IF fileName = "./testdata/not.sql"
            THEN /\ ret' = [op |-> "LoadSQLQueries", err |-> ErrNoSuchFile,
                            arg |-> 0, files |-> <<>>]
                 /\ pc' = "done"
                 /\ scanner' = NoScanner
            ELSE /\ \E lines \in SQLFiles :
                      scanner' = [lines |-> lines, pos |-> 0, err |-> nil]
                 /\ pc' = "scanning"
                 /\ ret' = ret
    /\ key' = <<>>
    /\ queries' = <<>>
    /\ query' = EmptyMap
    /\ trace' = <<>>
    /\ UNCHANGED <<t, req, dest, w, fs>>

\* scanner.Scan() has another line
MoreLines ==
    /\ scanner.pos < Len(scanner.lines)
    /\ ~TooLong(scanner.lines[scanner.pos + 1])

\* one turn of the loop of parseSQLQueries
ScanLine ==
    /\ pc = "scanning"
    /\ MoreLines
    /\ LET n == scanner.pos + 1
           line == TrimSpace(scanner.lines[n])
       IN /\ scanner' = [scanner EXCEPT !.pos = n]
          /\ IF isSQLQuery(line) \/ Len(key) > 0
             THEN IF Appends(key, line)
                  THEN IF Terminated(line)
                       THEN /\ query' = Store(query, key,
                                              Join(Append(queries, line)))
                            /\ key' = <<>>
                            /\ queries' = <<>>
                            /\ trace' = Append(trace, <<"store", n>>)
                       ELSE /\ queries' = Append(queries, line)
                            /\ trace' = Append(trace, <<"append", n>>)
                            /\ UNCHANGED <<key, query>>
                  ELSE /\ key' = extractKey(line)
                       /\ trace' = Append(trace, <<"extractKey", n>>)
                       /\ UNCHANGED <<queries, query>>
             ELSE /\ trace' = Append(trace, <<"skip", n>>)
                  /\ UNCHANGED <<key, queries, query>>
    /\ UNCHANGED <<t, req, dest, w, fs, args, ret, pc>>

\* scanner.Scan() returns false: parseSQLQueries and LoadSQLQueries return
ScanReturn ==
    /\ pc = "scanning"
    /\ ~MoreLines
    /\ LET err == IF scanner.pos < Len(scanner.lines)
                  THEN ErrReadingFile ELSE nil
       IN /\ scanner' = [scanner EXCEPT !.err = err]
          /\ ret' = [op |-> "LoadSQLQueries", err |-> err, arg |-> 0,
                     files |-> <<>>]
    /\ pc' = "done"
    /\ UNCHANGED <<t, req, dest, w, fs, args, trace, key, queries, query>>

InitSQL == InitCommon /\ t = ZeroTools

NextSQL == DoLoadSQLQueries \/ ScanLine \/ ScanReturn \/ NextRequest

SpecSQL == InitSQL /\ [][NextSQL]_vars

\* ===================================================================
\* Properties of the SQL query loader (SpecSQL)
\* ===================================================================
\* the file was opened and the call has returned
SQLReturned ==
    pc = "done" /\ ret.op = "LoadSQLQueries" /\ ret.err # ErrNoSuchFile

\* line n of the file, white space at its ends aside
Trimmed(n) == TrimSpace(scanner.lines[n])

NoLongLine == \A n \in 1..Len(scanner.lines) : ~TooLong(scanner.lines[n])

Words == {"A", "B", "x"}

\* the line is "-- NAME", NAME being one or more words
IsNamedHeader(l) ==
    /\ Len(l) >= 3
    /\ l[1] = "--" /\ l[2] = " "
    /\ \A i \in 3..Len(l) : l[i] \in Words

NameOf(l) == SubSeq(l, 3, Len(l))

EndsWithSemicolon(l) == Len(l) > 0 /\ l[Len(l)] = ";"

BeginsWithVerb(l) ==
    Len(l) > 0 /\ l[1] \in {"SELECT", "INSERT", "UPDATE", "DELETE"}

\* the lines a to b, trimmed, with one space between them
RECURSIVE Text(_, _)
Text(a, b) ==
    IF a >= b THEN Trimmed(b) ELSE Text(a, b - 1) \o <<" ">> \o Trimmed(b)

\* the event the loop logged for line n
Event(n) == trace[n][1]

\* C15: a file made of a header line -- NAME and k >= 1 body lines of which
\* only the last ends, white space aside, with ; gives the table that maps
\* NAME to the trimmed body lines joined by single spaces, the ; included
\* and the header line left out, and no error.
C15_BlockStored ==
    LET n == Len(scanner.lines) IN
    (/\ SQLReturned
     /\ NoLongLine
     /\ n >= 2
     /\ IsNamedHeader(Trimmed(1))
     /\ EndsWithSemicolon(Trimmed(n))
     /\ \A i \in 2..(n - 1) : ~EndsWithSemicolon(Trimmed(i)))
        => /\ ret.err = nil
           /\ query = (NameOf(Trimmed(1)) :> Text(2, n))

\* -- A, a line that does not end the block, and a line that does
C15_Witness ==
    /\ SQLReturned
    /\ Len(scanner.lines) = 3
    /\ IsNamedHeader(Trimmed(1))
    /\ ~EndsWithSemicolon(Trimmed(2)) /\ Trimmed(2) # <<>>
    /\ EndsWithSemicolon(Trimmed(3))
    /\ DOMAIN query = {NameOf(Trimmed(1))}

\* line h was read as a header: the parser was Seeking and the line is
\* -- NAME
HeaderAt(h) ==
    /\ h \in 1..Len(trace)
    /\ Event(h) = "extractKey"
    /\ IsNamedHeader(Trimmed(h))

\* the line that ends the block whose header is line h, 0 if none does
BlockEnd(h) ==
    LET ends == {n \in (h + 1)..Len(trace) : EndsWithSemicolon(Trimmed(n))}
    IN  IF ends = {} THEN 0 ELSE CHOOSE n \in ends : \A m \in ends : n <= m

\* the headers of the terminated blocks with key k
ClosedBlocks(k) ==
    {h \in 1..Len(trace) :
        HeaderAt(h) /\ NameOf(Trimmed(h)) = k /\ BlockEnd(h) # 0}

ClosedKeys ==
    {NameOf(Trimmed(h)) : h \in {x \in 1..Len(trace) :
                                    HeaderAt(x) /\ BlockEnd(x) # 0}}

\* the text of the last terminated block with key k
LastText(k) ==
    LET h == CHOOSE x \in ClosedBlocks(k) : \A y \in ClosedBlocks(k) : x >= y
    IN  Text(h + 1, BlockEnd(h))

\* C16: when the input ends after a header was read and no later line ended
\* with ; no error is returned, nothing is stored from that line on, its
\* key is in the table only if an earlier terminated block stored it, and
\* the table holds what the earlier terminated blocks stored.
C16_UnterminatedBlockDiscarded ==
    (SQLReturned /\ NoLongLine) =>
        \A h \in 1..Len(trace) :
            (HeaderAt(h) /\ BlockEnd(h) = 0) =>
                /\ ret.err = nil
                /\ key = NameOf(Trimmed(h))
                /\ \A n \in h..Len(trace) : Event(n) # "store"
                /\ DOMAIN query = ClosedKeys
                /\ \A k \in DOMAIN query : query[k] = LastText(k)

\* a terminated block with key A, then a header B and a line without ;
C16_Witness ==
    /\ SQLReturned
    /\ Len(trace) = 4
    /\ HeaderAt(1) /\ BlockEnd(1) = 2
    /\ HeaderAt(3) /\ BlockEnd(3) = 0
    /\ NameOf(Trimmed(3)) # NameOf(Trimmed(1))
    /\ Trimmed(4) # <<>>
    /\ DOMAIN query = {NameOf(Trimmed(1))}

\* line n began with a verb and was read while the parser was Seeking
VerbLineWhileSeeking(n) ==
    /\ n \in 1..Len(trace)
    /\ Event(n) = "extractKey"
    /\ BeginsWithVerb(Trimmed(n))

\* C17, as stated: after a line beginning with SELECT, INSERT, UPDATE or
\* DELETE was read while Seeking, the parser is Accumulating: the next line
\* is appended to the buffer.
C17_VerbLineStartsBlock ==
    \A n \in 1..Len(trace) :
        (VerbLineWhileSeeking(n) /\ n < Len(trace)) =>
            Event(n + 1) \in {"append", "store"}

\* C17, amended: a line beginning with SELECT, INSERT, UPDATE or DELETE that
\* is read while Seeking leaves the parser Seeking: the key stays empty, the
\* line is not put in the buffer, the table is unchanged, and the next line
\* is read as a line is in Seeking, a -- NAME line as a header.
C17_VerbLineStaysSeeking ==
    /\ [](\A n \in 1..Len(trace) :
            VerbLineWhileSeeking(n) =>
                /\ n = Len(trace) => (key = <<>> /\ queries = <<>>)
                /\ n < Len(trace) => Event(n + 1) \in {"extractKey", "skip"}
                /\ (n < Len(trace) /\ IsNamedHeader(Trimmed(n + 1)))
                       => HeaderAt(n + 1))
    /\ [][(/\ pc = "scanning" /\ key = <<>>
           /\ scanner'.pos = scanner.pos + 1
           /\ BeginsWithVerb(TrimSpace(scanner.lines[scanner.pos + 1])))
              => (key' = <<>> /\ queries' = queries /\ query' = query)]_vars

\* SELECT x read while Seeking, and the line after it read as the header A
C17_Witness ==
    /\ pc = "scanning"
    /\ Len(trace) = 2
    /\ VerbLineWhileSeeking(1)
    /\ ~EndsWithSemicolon(Trimmed(1))
    /\ HeaderAt(2)
    /\ key = NameOf(Trimmed(2))

\* C18: when two terminated blocks carry the same key, the table maps the
\* key to the text of the later one, no error is returned, and every other
\* key of a terminated block maps to the text of its last block.
C18_LaterBlockWins ==
    (SQLReturned /\ NoLongLine) =>
        \A k \in ClosedKeys :
            Cardinality(ClosedBlocks(k)) >= 2 =>
                /\ ret.err = nil
                /\ k \in DOMAIN query
                /\ query[k] = LastText(k)
                /\ \A other \in ClosedKeys \ {k} :
                      other \in DOMAIN query /\ query[other] = LastText(other)

\* two blocks with the same key and different texts
C18_Witness ==
    /\ SQLReturned
    /\ Len(trace) = 4
    /\ HeaderAt(1) /\ BlockEnd(1) = 2
    /\ HeaderAt(3) /\ BlockEnd(3) = 4
    /\ NameOf(Trimmed(1)) = NameOf(Trimmed(3))
    /\ Trimmed(2) # Trimmed(4)
    /\ query = (NameOf(Trimmed(3)) :> Trimmed(4))

\* the line is blank or begins neither with "-- " nor with a verb
Unrecognized(l) ==
    \/ l = <<>>
    \/ /\ ~(Len(l) >= 2 /\ l[1] = "--" /\ l[2] = " ")
       /\ ~BeginsWithVerb(l)

\* C19: a line that is blank, or begins neither with "-- " nor with SELECT,
\* INSERT, UPDATE or DELETE, read while the parser is Seeking, leaves the
\* key, the buffer and the table as they were; and as long as no line
\* beginning with "-- " has been read the table is empty and no key is set.
C19_SkippedWhileSeeking ==
    /\ [][(/\ pc = "scanning" /\ key = <<>>
           /\ scanner'.pos = scanner.pos + 1
           /\ Unrecognized(TrimSpace(scanner.lines[scanner.pos + 1])))
              => (/\ key' = key /\ queries' = queries /\ query' = query
                  /\ trace'[scanner'.pos][1] = "skip")]_vars
    /\ []((\A n \in 1..Len(trace) :
              ~(Len(Trimmed(n)) >= 2 /\ Trimmed(n)[1] = "--"
                                     /\ Trimmed(n)[2] = " "))
            => (query = EmptyMap /\ key = <<>> /\ queries = <<>>))

\* a line that is not blank is skipped between two blocks, the table kept
C19_Witness ==
    /\ pc = "scanning"
    /\ Len(trace) = 3
    /\ Event(3) = "skip"
    /\ Trimmed(3) # <<>>
    /\ key = <<>>
    /\ query # EmptyMap

\* ===================================================================
\* Slugify
\* ===================================================================
\* A string is a sequence of characters: a lower-case letter, an upper-case
\* letter, a digit, a hyphen, a space, U+3053, a character that is not ASCII
\* and has no case, and U+212A, the Kelvin sign, which is not ASCII and has
\* the ASCII letter k as its lower case.
ErrEmptyString == "empty string not permitted"
ErrZeroLength  == "after removing characters, slug is zero length"

SlugChars == {"a", "Z", "1", "-", " ", "U+3053", "U+212A"}

\* a lower-casing of the ASCII letters only
LowerChar_ASCII(c) == IF c = "Z" THEN "z" ELSE c

\* strings.ToLower, character by character: unicode.ToLower for a character
\* that is not ASCII
LowerChar(c) == IF c = "Z" THEN "z" ELSE IF c = "U+212A" THEN "k" ELSE c

SlugToLower(str) == [i \in 1..Len(str) |-> LowerChar(str[i])]

\* the characters the class [^a-z\d] does not match
InClass(c) == c \in {"a", "k", "z", "1"}

\* re.ReplaceAllString(str, "-") for the expression [^a-z\d]+ : every
\* longest run of characters outside a-z and 0-9 becomes one hyphen
RECURSIVE ReplaceAllString(_)
ReplaceAllString(str) ==
    IF Len(str) = 0 THEN <<>>
    ELSE IF InClass(str[1]) THEN <<str[1]>> \o ReplaceAllString(Tail(str))
    ELSE IF Len(str) >= 2 /\ ~InClass(str[2])
    THEN ReplaceAllString(Tail(str))
    ELSE <<"-">> \o ReplaceAllString(Tail(str))

\* a Trim that cuts nothing off
Trim_Nothing(str, cutset) == str

\* strings.Trim(str, cutset), cutset being one character
Trim(str, cutset) ==
    LET keep == {i \in 1..Len(str) : str[i] # cutset}
    IN  IF keep = {} THEN <<>>
        ELSE SubSeq(str, CHOOSE i \in keep : \A j \in keep : i <= j,
                         CHOOSE i \in keep : \A j \in keep : i >= j)

\* Slugify(s)
Slugify(str) ==
    IF str = <<>> THEN [slug |-> <<>>, err |-> ErrEmptyString]
    ELSE LET slug == Trim(ReplaceAllString(SlugToLower(str)), "-")
         IN IF Len(slug) = 0 THEN [slug |-> <<>>, err |-> ErrZeroLength]
            ELSE [slug |-> slug, err |-> nil]

\* a caller calls t.Slugify(s)
DoSlugify ==
    /\ pc = "idle"
    /\ \E str \in SeqsUpTo(SlugChars, MaxSlugLen) :
         LET out == Slugify(str) IN
         /\ args' = [NoArgs EXCEPT !.tools = t, !.s = str]
         /\ ret' = [op |-> "Slugify", err |-> out.err, arg |-> 0,
                    files |-> <<>>, slug |-> out.slug]
    /\ pc' = "done"
    /\ trace' = <<>>
    /\ UNCHANGED <<t, req, dest, w, fs>>
    /\ UNCHANGED parser

InitSlug == InitCommon /\ t = ZeroTools

NextSlug == DoSlugify \/ NextRequest

SpecSlug == InitSlug /\ [][NextSlug]_vars

\* C20: a slug that Slugify returns without an error is not empty, is made
\* of characters of [a-z0-9-] only, and neither begins nor ends with a
\* hyphen.
C20_SlugShape ==
    (pc = "done" /\ ret.op = "Slugify" /\ ret.err = nil) =>
        /\ Len(ret.slug) > 0
        /\ \A i \in 1..Len(ret.slug) :
              ret.slug[i] \in {"a", "k", "z", "1", "-"}
        /\ ret.slug[1] # "-"
        /\ ret.slug[Len(ret.slug)] # "-"

\* an input that begins with a character outside a-z and 0-9, holds an
\* upper-case letter and ends with a hyphen
C20_Witness ==
    /\ pc = "done" /\ ret.op = "Slugify" /\ ret.err = nil
    /\ Len(args.s) = 4
    /\ args.s[1] \in {" ", "U+3053"}
    /\ args.s[2] = "Z"
    /\ args.s[4] = "-"
    /\ ret.slug = <<"z", "a">>

SlugifyReturned == pc = "done" /\ ret.op = "Slugify"

\* the input holds an ASCII letter or digit
HasASCIIAlnum(str) == \E i \in 1..Len(str) : str[i] \in {"a", "Z", "1"}

\* the input holds a character whose lower case is in a-z or 0-9
HasLowerAlnum(str) ==
    \E i \in 1..Len(str) : str[i] \in {"a", "Z", "1", "U+212A"}

\* C21, as stated: Slugify fails exactly when its input holds no ASCII
\* letter or digit, with the empty-string error for the empty input and the
\* zero-length error for every other such input, and an empty slug.
C21_FailsWithoutASCIIAlnum ==
    SlugifyReturned =>
        /\ (ret.err # nil) <=> ~HasASCIIAlnum(args.s)
        /\ ret.err # nil =>
              /\ ret.slug = <<>>
              /\ ret.err = IF args.s = <<>> THEN ErrEmptyString
                           ELSE ErrZeroLength

\* C21, amended: Slugify fails exactly when its input holds no character
\* whose lower case is in a-z or 0-9, with the empty-string error for the
\* empty input and the zero-length error for every other such input, and an
\* empty slug; an input of characters that are not ASCII succeeds when one
\* of them has an ASCII letter as its lower case.
C21_FailsWithoutLowerAlnum ==
    SlugifyReturned =>
        /\ (ret.err # nil) <=> ~HasLowerAlnum(args.s)
        /\ ret.err # nil =>
              /\ ret.slug = <<>>
              /\ ret.err = IF args.s = <<>> THEN ErrEmptyString
                           ELSE ErrZeroLength
        /\ (ret.err = nil /\ ~HasASCIIAlnum(args.s)) =>
              \A i \in 1..Len(ret.slug) : ret.slug[i] \in {"k", "-"}

\* the Kelvin sign between two characters without case gives the slug k
C21_Witness ==
    /\ SlugifyReturned
    /\ args.s = <<"U+3053", "U+212A", "U+3053">>
    /\ ret.err = nil
    /\ ret.slug = <<"k">>

\* ===================================================================
\* RandomString
\* ===================================================================
\* randomStringSource, character by character
randomStringSource ==
    <<"a", "b", "c", "d", "e", "f", "g", "h", "i", "j", "k", "l", "m",
      "n", "o", "p", "q", "r", "s", "t", "u", "v", "w", "x", "y", "z",
      "A", "B", "C", "D", "E", "F", "G", "H", "I", "J", "K", "L", "M",
      "N", "O", "P", "Q", "R", "S", "T", "U", "V", "W", "X", "Y", "Z",
      "0", "9", "8", "7", "6", "5", "4", "3", "2", "1", "_", "+">>

RECURSIVE GCD(_, _)
GCD(a, b) == IF b = 0 THEN a ELSE GCD(b, a % b)

\* x % y for x = p.Uint64(), p being rand.Prime(rand.Reader, bits): a prime
\* of bits bits is greater than y when y <= 2^(bits-1), so it has no factor
\* in common with y, and every such remainder is the remainder of a prime
PrimeMod(bits, y) == {x \in 0..(y - 1) : GCD(x, y) = 1}

\* a RandomString that returns one character more than asked for
RandomString_OneMore(n, xs) ==
    [i \in 1..(n + 1) |->
        randomStringSource[(IF i <= n THEN xs[i] ELSE 1) + 1]]

\* RandomString(n): s[i] = r[x%y]; xs[i] is the x%y of the i-th turn
RandomString(n, xs) == [i \in 1..n |-> randomStringSource[xs[i] + 1]]

\* a caller calls t.RandomString(n); outcomes is the set of the characters a
\* turn of the loop can put at its position
DoRandomString ==
    /\ pc = "idle"
    /\ \E n \in 0..MaxRandLen :
         LET r == randomStringSource
             y == Len(r)
         IN \E xs \in [1..n -> PrimeMod(Len(r), y)] :
              /\ args' = [NoArgs EXCEPT !.tools = t, !.n = n]
              /\ ret' = [op |-> "RandomString", err |-> nil, arg |-> 0,
                         files |-> <<>>, s |-> RandomString(n, xs),
                         outcomes |-> {r[x + 1] : x \in PrimeMod(Len(r), y)}]
    /\ pc' = "done"
    /\ trace' = <<>>
    /\ UNCHANGED <<t, req, dest, w, fs>>
    /\ UNCHANGED parser

InitRandom == InitCommon /\ t = ZeroTools

NextRandom == DoRandomString \/ NextRequest

SpecRandom == InitRandom /\ [][NextRandom]_vars

RandomReturned == pc = "done" /\ ret.op = "RandomString"

Alphabet == {randomStringSource[i] : i \in 1..Len(randomStringSource)}

\* C22: RandomString(n) returns a string of exactly n characters, each of
\* them a character of the 64-character alphabet randomStringSource.
C22_LengthAndAlphabet ==
    RandomReturned =>
        /\ Len(ret.s) = args.n
        /\ \A i \in 1..Len(ret.s) : ret.s[i] \in Alphabet
        /\ Cardinality(Alphabet) = 64

\* a string of two different characters
C22_Witness ==
    /\ RandomReturned
    /\ args.n = 2
    /\ Len(ret.s) = 2
    /\ ret.s[1] # ret.s[2]

\* C23: at every position each of the 64 characters of the alphabet is a
\* possible outcome of RandomString.
C23_EveryCharacterPossible ==
    (RandomReturned /\ args.n >= 1) => ret.outcomes = Alphabet

\* ===================================================================
\* Further properties of the upload processor (SpecUpload)
\* ===================================================================
\* C24: a call leaves every configuration field of the Tools value it was
\* called on as the caller set it.
C24_ConfigurationUnchanged ==
    pc = "done" => t = args.tools

\* C25: when CreateDirIfNotExist(path) has returned without an error, path
\* is a directory; and UploadFiles has parsed the form only if the upload
\* directory is a directory.
C25_DirectoryExists ==
    /\ (pc = "done" /\ ret.op = "CreateDirIfNotExist" /\ ret.err = nil)
          => fs.kind[args.uploadDir] = "dir"
    /\ (UploadReturned /\ Did("ParseMultipartForm", 0))
          => fs.kind[args.uploadDir] = "dir"

\* C26: when UploadFiles returns an error it returns no records, also when
\* the call has stored files in the upload directory.
C26_NoRecordsOnError ==
    (UploadReturned /\ ret.err # nil) => ret.files = <<>>

\* the second file is rejected after the first has been stored
C26_Witness ==
    /\ UploadReturned
    /\ ret.err = ErrTypeNotPermitted
    /\ Len(req.files) = 2
    /\ Did("Copy", 1)
    /\ fs.files # {}
    /\ ret.files = <<>>

\* C30: a file without bytes that UploadFiles reads makes the call fail with
\* the end-of-stream error of the read; no destination file is created for
\* it, no later file is processed and no records are returned, whatever the
\* allow-list is.
C30_EmptyFileFails ==
    UploadReturned =>
        \A i \in 1..Len(req.files) :
            (Did("Read", i) /\ req.files[i].Size = 0) =>
                /\ ret.err = EOF
                /\ LastStep = <<"Read", i>>
                /\ ~Did("DetectContentType", i)
                /\ ~Did("Create", i)
                /\ \A k \in 1..Len(trace) : trace[k][2] <= i
                /\ ret.files = <<>>

\* an empty file before a PNG, with an allow-list and without one
C30_Witness ==
    /\ UploadReturned
    /\ Len(req.files) = 2
    /\ req.files[1].Size = 0
    /\ req.files[2].magic = "png"
    /\ ret.err = EOF
    /\ ~Did("Open", 2)
    /\ fs.files = {}

\* ===================================================================
\* Further properties of the SQL query loader (SpecSQL)
\* ===================================================================
\* the line begins, white space aside, with "-- "
BeginsWithMarker(l) == Len(l) >= 2 /\ l[1] = "--" /\ l[2] = " "

\* C27: while a key is set every line read goes to the block of that key,
\* blank lines and lines beginning with "-- " included: the key changes
\* only when a line ending with ; closes the block, and then the table
\* maps the key to the text of all the lines after its header, so a header
\* line inside a block is never read as a header and is part of that text.
C27_AccumulatingAppendsEveryLine ==
    /\ [][(/\ pc = "scanning" /\ key # <<>>
           /\ scanner'.pos = scanner.pos + 1)
              => LET line == TrimSpace(scanner.lines[scanner.pos + 1]) IN
                 IF EndsWithSemicolon(line)
                 THEN /\ key' = <<>> /\ queries' = <<>>
                      /\ DOMAIN query' = DOMAIN query \cup {key}
                      /\ query'[key] = Join(Append(queries, line))
                 ELSE /\ key' = key /\ query' = query
                      /\ queries' = Append(queries, line)]_vars
    /\ [](\A h \in 1..Len(trace) :
            HeaderAt(h) =>
                \A m \in (h + 1)..Len(trace) :
                    (BlockEnd(h) = 0 \/ m <= BlockEnd(h)) =>
                        /\ Event(m) \in {"append", "store"}
                        /\ m = BlockEnd(h) =>
                              (/\ Event(m) = "store"
                               /\ scanner.pos = m
                                     => query[NameOf(Trimmed(h))]
                                            = Text(h + 1, m)))

\* the header B and a blank line inside the block of A end up in A's text
C27_Witness ==
    /\ SQLReturned
    /\ Len(trace) = 4
    /\ HeaderAt(1)
    /\ IsNamedHeader(Trimmed(2)) /\ NameOf(Trimmed(2)) # NameOf(Trimmed(1))
    /\ Trimmed(3) = <<>>
    /\ BlockEnd(1) = 4
    /\ DOMAIN query = {NameOf(Trimmed(1))}
    /\ query[NameOf(Trimmed(1))] = Text(2, 4)

\* C28: at every moment of a parse, every key of the table is a non-empty
\* text taken from a line that begins with "-- ", the text after the
\* marker, and every value is non-empty and ends with ;
C28_TableWellFormed ==
    pc \in {"scanning", "done"} =>
        \A k \in DOMAIN query :
            /\ k # <<>>
            /\ \E n \in 1..Len(trace) :
                  /\ BeginsWithMarker(Trimmed(n))
                  /\ HasPrefix(SubSeq(Trimmed(n), 3, Len(Trimmed(n))), k)
            /\ query[k] # <<>>
            /\ EndsWithSemicolon(query[k])

\* one entry, after a statement without a header was passed over
C28_Witness ==
    /\ SQLReturned
    /\ Len(trace) = 3
    /\ BeginsWithVerb(Trimmed(1)) /\ EndsWithSemicolon(Trimmed(1))
    /\ DOMAIN query = {NameOf(Trimmed(2))}
    /\ query[NameOf(Trimmed(2))] = Trimmed(3)

\* ===================================================================
\* Further properties of the encoders (SpecWrite)
\* ===================================================================
\* where step is in the trace of the call, 0 if it is not
StepAt(step) ==
    LET at == {k \in 1..Len(trace) : trace[k] = step}
    IN  IF at = {} THEN 0 ELSE CHOOSE k \in at : \A j \in at : k <= j

\* C29: after a successful WriteJSON (WriteXML) the Content-Type of the
\* response is application/json (application/xml) and nothing else, also
\* when the caller's headers hold a Content-Type; every other key of the
\* caller's headers has the caller's values; the headers are merged before
\* the Content-Type is set, and the status and the body are written after.
C29_ContentTypeWins ==
    (pc = "done" /\ ret.op \in {"WriteJSON", "WriteXML"} /\ ret.err = nil) =>
        /\ w.header["Content-Type"] =
              <<IF ret.op = "WriteJSON" THEN "application/json"
                ELSE "application/xml">>
        /\ Len(args.headers) > 0 =>
              /\ \A k \in HeaderKeys \ {"Content-Type"} :
                    w.header[k] = args.headers[1][k]
              /\ 0 < StepAt("merge headers")
              /\ StepAt("merge headers") < StepAt("Set Content-Type")
        /\ 0 < StepAt("Set Content-Type")
        /\ StepAt("Set Content-Type") < StepAt("WriteHeader")
        /\ StepAt("WriteHeader") < StepAt("Write")
        /\ w.status = args.status[1]

\* the caller's headers ask for text/plain, the response is JSON
C29_Witness ==
    /\ pc = "done" /\ ret.op = "WriteJSON" /\ ret.err = nil
    /\ Len(args.headers) = 1
    /\ args.headers[1]["Content-Type"] = <<"text/plain">>
    /\ w.header["Content-Type"] = <<"application/json">>

====
